---- MODULE Spec2Model ----
(***************************************************************************)
(* Model of main.py: FastScraper (scrape_page, scrape_website), SmartAI    *)
(* (call, with its md5-keyed cache) and UniversalChatbot (initialize,      *)
(* create_chunks, get_relevant_chunks, ask).                               *)
(*                                                                         *)
(* A Python str is a sequence of one-character strings; Ord gives the code *)
(* point that Python's string comparison uses.                             *)
(***************************************************************************)
EXTENDS Integers, Sequences, FiniteSets, TLC

VARIABLES
    apiKey,      \* OPENROUTER_API_KEY is non-empty (read once at import)
    siteId,      \* which remote site answers the page fetches
    url,         \* UniversalChatbot.url
    pages,       \* UniversalChatbot.pages
    chunks,      \* UniversalChatbot.chunks
    ready,       \* UniversalChatbot.ready
    cache,       \* SmartAI.cache: digest -> answer
    initPc,      \* position of the thread running initialize()
    futures,     \* scrape_website: per submitted task, its URL and state
    localPages,  \* scrape_website: the local list `pages`
    okFetched,   \* history: indices of the URLs whose scrape_page returned a page in the last scrape
    nInit,       \* history: number of initialize() calls started
    askPc,       \* position of the thread running ask()
    askQ,        \* ask: the question
    askPrompt,   \* ask: the prompt handed to SmartAI.call
    lastAsk,     \* history: outcome of the last completed ask()
    aiLog,       \* history: the last two completed SmartAI.call invocations
    nAsk,        \* history: number of ask() calls started
    outbound,    \* history: number of requests.post calls issued
    oldPages,    \* history: self.pages when the last initialize() was called
    oldChunks,   \* history: self.chunks when the last initialize() was called
    build,       \* create_chunks: pages done and the local list `chunks`
    other        \* a second thread calling ask() on the same session

vars == <<apiKey, siteId, url, pages, chunks, ready, cache, initPc, futures,
          localPages, okFetched, nInit, askPc, askQ, askPrompt, lastAsk,
          aiLog, nAsk, outbound, oldPages, oldChunks, build, other>>

(***************************************************************************)
(* Bounds of the model.                                                    *)
(***************************************************************************)
\* calls of initialize() and ask() made on the session
MaxOps == 3

(***************************************************************************)
(* Python str helpers.                                                     *)
(***************************************************************************)
NL == "\n"
SP == " "

Ord(c) ==
    CASE c = NL -> 10
      [] c = SP -> 32
      [] c = "A" -> 65
      [] c = "a" -> 97
      [] c = "b" -> 98
      [] c = "c" -> 99
      [] c = "d" -> 100

Whitespace == {NL, SP}

Rep(c, n) == [i \in 1..n |-> c]

Min2(a, b) == IF a < b THEN a ELSE b

\* str.lower()
LowerChar(c) == IF c = "A" THEN "a" ELSE c
Lower(s) == [i \in 1..Len(s) |-> LowerChar(s[i])]

\* s[a:b] for 0 <= a; b is clipped to len(s)
Slice(s, a, b) == SubSeq(s, a + 1, Min2(b, Len(s)))

\* w in s
Contains(s, w) ==
    \E i \in 0..(Len(s) - Len(w)) : \A j \in 1..Len(w) : s[i + j] = w[j]

\* s.startswith(p)
StartsWith(s, p) == Len(s) >= Len(p) /\ SubSeq(s, 1, Len(p)) = p

\* s.strip()
Strip(s) ==
    IF \A i \in 1..Len(s) : s[i] \in Whitespace THEN <<>>
    ELSE LET first == CHOOSE i \in 1..Len(s) :
                          /\ s[i] \notin Whitespace
                          /\ \A j \in 1..(i - 1) : s[j] \in Whitespace
             last == CHOOSE i \in 1..Len(s) :
                          /\ s[i] \notin Whitespace
                          /\ \A j \in (i + 1)..Len(s) : s[j] \in Whitespace
         IN SubSeq(s, first, last)

\* the elements of a finite set of integers, in increasing order
RECURSIVE SortedSeq(_)
SortedSeq(S) ==
    IF S = {} THEN <<>>
    ELSE LET m == CHOOSE x \in S : \A y \in S : x <= y
         IN <<m>> \o SortedSeq(S \ {m})

\* s.split(sep): the pieces between consecutive separators, empty ones kept
SplitOn(s, sep) ==
    LET cuts == <<0>> \o SortedSeq({i \in 1..Len(s) : s[i] = sep}) \o <<Len(s) + 1>>
    IN [k \in 1..(Len(cuts) - 1) |-> SubSeq(s, cuts[k] + 1, cuts[k + 1] - 1)]

\* s.split(): the maximal runs of non-whitespace characters
SplitWords(s) ==
    LET starts == {i \in 1..Len(s) :
                      /\ s[i] \notin Whitespace
                      /\ (i = 1 \/ s[i - 1] \in Whitespace)}
        ss == SortedSeq(starts)
        EndOf(a) == CHOOSE e \in a..Len(s) :
                        /\ \A j \in a..e : s[j] \notin Whitespace
                        /\ (e = Len(s) \/ s[e + 1] \in Whitespace)
    IN [k \in 1..Len(ss) |-> SubSeq(s, ss[k], EndOf(ss[k]))]

\* sep.join(parts)
RECURSIVE Join(_, _)
Join(sep, parts) ==
    IF Len(parts) = 0 THEN <<>>
    ELSE IF Len(parts) = 1 THEN parts[1]
    ELSE parts[1] \o sep \o Join(sep, Tail(parts))

\* a < b for str
StrLess(a, b) ==
    LET n == Min2(Len(a), Len(b))
    IN IF \A i \in 1..n : a[i] = b[i] THEN Len(a) < Len(b)
       ELSE LET d == CHOOSE i \in 1..n : a[i] # b[i] /\ \A j \in 1..(i - 1) : a[j] = b[j]
            IN Ord(a[d]) < Ord(b[d])

(***************************************************************************)
(* The remote site: what requests.get answers for a URL.  A response is    *)
(* [raises, status, text]; text is what soup.get_text yields for the body  *)
(* once script, style, nav and footer are decomposed (BeautifulSoup itself *)
(* is outside the model).                                                  *)
(***************************************************************************)
Scheme == <<"h", "t", "t", "p", "s", ":", "/", "/">>
Host == <<"x", ".", "i", "o">>
\* a bare host name that begins with the letters of a scheme, like httpbin.org
HttpHost == <<"h", "t", "t", "p", "x", ".", "i", "o">>
Suffixes == << <<>>,
               <<"/", "a", "b", "o", "u", "t">>,
               <<"/", "s", "e", "r", "v", "i", "c", "e", "s">>,
               <<"/", "p", "r", "o", "d", "u", "c", "t", "s">>,
               <<"/", "c", "o", "n", "t", "a", "c", "t">> >>

Ok(text) == [raises |-> FALSE, status |-> 200, text |-> text]
NotFound == [raises |-> FALSE, status |-> 404, text |-> <<>>]
Timeout == [raises |-> TRUE, status |-> 0, text |-> <<>>]

\* only lines of at most 30 characters: nothing survives the line filter
TextMenu == <<"a", "b", NL, SP, "a", SP, NL, "b">>
\* one line of 31 characters between blanks, and a short line
TextA == <<SP, SP>> \o Rep("a", 30) \o <<"b", SP, NL, "a", "b", NL>>
\* a line of 31 characters that matches "a" only through lower(), smaller than TextA's
TextC == <<"A">> \o Rep("c", 29) \o <<"b">>
\* two long lines and a short one between them: 31 + 1 + 2469 = 2501 characters
\* survive, five chunks of 500 and one of 1
TextBig == Rep("b", 31) \o <<NL, "d", NL>>
           \o [i \in 1..2469 |-> IF i = 2469 \/ i % 300 = 0 THEN "a"
                                 ELSE IF i % 1100 = 2 THEN "b" ELSE "c"]

SitePages(s) ==
    CASE s = 0 -> <<NotFound, Timeout, NotFound, Timeout, NotFound>>
      [] s = 1 -> <<Ok(TextA), NotFound, Timeout, NotFound, Ok(TextC)>>
      [] s = 2 -> <<Ok(TextMenu), NotFound, NotFound, Timeout, NotFound>>
      [] s = 3 -> <<Ok(TextBig), NotFound, Timeout, NotFound, Ok(TextMenu)>>

\* requests.get(url, ...) against site s
Get(s, u) ==
    IF \E k \in 1..Len(Suffixes) : u = Scheme \o Host \o Suffixes[k]
    THEN SitePages(s)[CHOOSE k \in 1..Len(Suffixes) : u = Scheme \o Host \o Suffixes[k]]
    ELSE Timeout

(***************************************************************************)
(* FastScraper                                                             *)
(***************************************************************************)
MinLineLen == 30
MaxContent == 8000

\* Optional results: <<>> is None, <<x>> is x
None == <<>>

\* lines 87-93: the stripped lines longer than 30 characters, joined by "\n"
Content(text) ==
    LET lines == SplitOn(text, NL)
        kept == SortedSeq({k \in 1..Len(lines) : Len(Strip(lines[k])) > MinLineLen})
    IN Join(<<NL>>, [j \in 1..Len(kept) |-> Strip(lines[kept[j]])])

\* scrape_page without lines 77-78: a page is built whatever the status
scrape_pageAnyStatus(s, u) ==
    LET r == Get(s, u)
    IN IF r.raises THEN None
       ELSE << [url |-> u, content |-> Slice(Content(r.text), 0, MaxContent)] >>

\* lines 71-101
scrape_page(s, u) ==
    LET r == Get(s, u)
    IN IF r.raises THEN None
       ELSE IF r.status # 200 THEN None
       ELSE << [url |-> u, content |-> Slice(Content(r.text), 0, MaxContent)] >>

\* lines 105-114
Urls(base_url) ==
    LET b == IF ~StartsWith(base_url, <<"h", "t", "t", "p">>)
             THEN Scheme \o base_url ELSE base_url
    IN [k \in 1..Len(Suffixes) |-> b \o Suffixes[k]]

(***************************************************************************)
(* UniversalChatbot.create_chunks                                          *)
(***************************************************************************)
ChunkSize == 500

\* range(0, stop, step) as a sequence
Range(stop, step) == [k \in 1..((stop + step - 1) \div step) |-> (k - 1) * step]

\* PageChunks with windows one character too long: text[i:i+501]
PageChunksOverlap(text) ==
    LET starts == Range(Len(text), ChunkSize)
    IN [k \in 1..Len(starts) |-> Slice(text, starts[k], starts[k] + ChunkSize + 1)]

\* lines 233-237, for one page
PageChunks(text) ==
    LET starts == Range(Len(text), ChunkSize)
    IN [k \in 1..Len(starts) |-> Slice(text, starts[k], starts[k] + ChunkSize)]

\* lines 227-239
RECURSIVE create_chunks(_)
create_chunks(ps) ==
    IF ps = <<>> THEN <<>>
    ELSE PageChunks(Head(ps).content) \o create_chunks(Tail(ps))

(***************************************************************************)
(* UniversalChatbot.get_relevant_chunks                                    *)
(***************************************************************************)
TopK == 5

\* Score counting only the keywords of more than three characters
ScoreLongWords(chunk, keywords) ==
    LET low == Lower(chunk)
    IN Cardinality({k \in 1..Len(keywords) :
                       Len(keywords[k]) > 3 /\ Contains(low, keywords[k])})

\* lines 254-259: one point per keyword found in the lower-cased chunk
Score(chunk, keywords) ==
    LET low == Lower(chunk)
    IN Cardinality({k \in 1..Len(keywords) : Contains(low, keywords[k])})

\* lines 252-262: the (score, chunk) tuples of the chunks scoring above 0, in corpus order
Scored(cs, keywords) ==
    LET score == [i \in 1..Len(cs) |-> Score(cs[i], keywords)]
        hit == SortedSeq({i \in 1..Len(cs) : score[i] > 0})
    IN [j \in 1..Len(hit) |-> <<score[hit[j]], cs[hit[j]]>>]

\* x < y for (score, chunk) tuples
TupleLess(x, y) == x[1] < y[1] \/ (x[1] = y[1] /\ StrLess(x[2], y[2]))

\* list.sort(reverse=True): descending, equal elements keep their order
RECURSIVE SortReverse(_)
SortReverse(seq) ==
    IF seq = <<>> THEN <<>>
    ELSE LET n == Len(seq)
             x == seq[n]
             done == SortReverse(SubSeq(seq, 1, n - 1))
             smaller == {i \in 1..Len(done) : TupleLess(done[i], x)}
             at == IF smaller = {} THEN Len(done) + 1
                   ELSE CHOOSE i \in smaller : \A j \in smaller : i <= j
         IN SubSeq(done, 1, at - 1) \o <<x>> \o SubSeq(done, at, Len(done))

\* lines 248-266: the tuples selected for the context
Best(cs, question) ==
    Slice(SortReverse(Scored(cs, SplitWords(Lower(question)))), 0, TopK)

\* lines 268-270
Context(best) == Join(<<NL, NL>>, [k \in 1..Len(best) |-> best[k][2]])

get_relevant_chunks(cs, question) == Context(Best(cs, question))

(***************************************************************************)
(* SmartAI and the prompt                                                  *)
(***************************************************************************)
Company == <<"A", "c">>

\* lines 287-312: the f-string, its literal parts kept as single elements
Prompt(company, context, question) ==
    <<"\n\nYou are an official chatbot for ">> \o company
    \o <<".\n\nCRITICAL RULES: ... WEBSITE CONTEXT:\n">> \o context
    \o <<"\n\n\nQUESTION:\n">> \o question
    \o <<"\n\n\nANSWER:\n\n">>

\* hashlib.md5(prompt.encode()).hexdigest(): a function of the prompt text alone,
\* without collisions among the prompts of the model
Md5(prompt) == [md5 |-> prompt]

\* what the generation service can answer to one request
GenResponses ==
    { [raises |-> TRUE,  status |-> 0,   body |-> None],
      [raises |-> FALSE, status |-> 500, body |-> None],
      [raises |-> FALSE, status |-> 200, body |-> None],
      [raises |-> FALSE, status |-> 200, body |-> <<"Answer one">>],
      [raises |-> FALSE, status |-> 200, body |-> <<"Answer two">>] }

Questions == { <<"A", SP, "b">>, <<"d">>, <<"a", "a", "a", "a">> }

\* the sessions of the model: the site behind the URL, the URL as typed, the credential
Deployments ==
    { [site |-> 0, url |-> Host, key |-> TRUE],
      [site |-> 1, url |-> Scheme \o Host, key |-> TRUE],
      [site |-> 1, url |-> Host, key |-> FALSE],
      [site |-> 2, url |-> Host, key |-> TRUE],
      [site |-> 3, url |-> Scheme \o Host, key |-> FALSE],
      [site |-> 0, url |-> HttpHost, key |-> FALSE] }

\* CallEntry without lines 146-147: the credential is never looked at
CallEntryNoKeyCheck(key, c, prompt) ==
    IF Md5(prompt) \in DOMAIN c
    THEN [sends |-> FALSE, path |-> "hit", ret |-> c[Md5(prompt)]]
    ELSE [sends |-> TRUE, path |-> "miss", ret |-> ""]

\* lines 146-152: what call does before any request; sends = TRUE when it goes on to requests.post
CallEntry(key, c, prompt) ==
    IF ~key THEN [sends |-> FALSE, path |-> "nokey", ret |-> "API key missing"]
    ELSE IF Md5(prompt) \in DOMAIN c
         THEN [sends |-> FALSE, path |-> "hit", ret |-> c[Md5(prompt)]]
         ELSE [sends |-> TRUE, path |-> "miss", ret |-> ""]

\* CallExit storing the sentinel of a non-success response as if it were an answer
CallExitCacheError(c, prompt, r) ==
    IF r.raises
    THEN [path |-> "raise", raised |-> TRUE, ret |-> "ConnectionError", cache |-> c]
    ELSE IF r.status = 200 /\ r.body = None
    THEN [path |-> "raise", raised |-> TRUE, ret |-> "KeyError", cache |-> c]
    ELSE LET answer == IF r.status # 200 THEN "AI Error" ELSE r.body[1]
         IN [path |-> IF r.status # 200 THEN "err" ELSE "ok", raised |-> FALSE,
             ret |-> answer,
             cache |-> [d \in DOMAIN c \cup {Md5(prompt)} |->
                           IF d = Md5(prompt) THEN answer ELSE c[d]]]

\* CallExit with a cache of one entry: storing an answer evicts the others
CallExitSingleEntry(c, prompt, r) ==
    IF r.raises
    THEN [path |-> "raise", raised |-> TRUE, ret |-> "ConnectionError", cache |-> c]
    ELSE IF r.status # 200
    THEN [path |-> "err", raised |-> FALSE, ret |-> "AI Error", cache |-> c]
    ELSE IF r.body = None
    THEN [path |-> "raise", raised |-> TRUE, ret |-> "KeyError", cache |-> c]
    ELSE [path |-> "ok", raised |-> FALSE, ret |-> r.body[1],
          cache |-> [d \in {Md5(prompt)} |-> r.body[1]]]

\* CallExit without line 182: the answer is returned and never stored
CallExitNoStore(c, prompt, r) ==
    IF r.raises
    THEN [path |-> "raise", raised |-> TRUE, ret |-> "ConnectionError", cache |-> c]
    ELSE IF r.status # 200
    THEN [path |-> "err", raised |-> FALSE, ret |-> "AI Error", cache |-> c]
    ELSE IF r.body = None
    THEN [path |-> "raise", raised |-> TRUE, ret |-> "KeyError", cache |-> c]
    ELSE [path |-> "ok", raised |-> FALSE, ret |-> r.body[1], cache |-> c]

\* lines 154-184: what call does with the outcome r of requests.post
CallExit(c, prompt, r) ==
    IF r.raises
    THEN [path |-> "raise", raised |-> TRUE, ret |-> "ConnectionError", cache |-> c]
    ELSE IF r.status # 200
    THEN [path |-> "err", raised |-> FALSE, ret |-> "AI Error", cache |-> c]
    ELSE IF r.body = None
    THEN [path |-> "raise", raised |-> TRUE, ret |-> "KeyError", cache |-> c]
    ELSE [path |-> "ok", raised |-> FALSE, ret |-> r.body[1],
          cache |-> [d \in DOMAIN c \cup {Md5(prompt)} |->
                        IF d = Md5(prompt) THEN r.body[1] ELSE c[d]]]

(***************************************************************************)
(* State machine.  The caller of the session is sequential: initialize()    *)
(* and ask() are called one after the other, in any order; inside           *)
(* initialize() the five fetch tasks run concurrently.                      *)
(***************************************************************************)
NoResp == [raises |-> FALSE, status |-> 0, body |-> None]

\* lastAsk: the question, the path taken, the value returned (or the exception
\* raised), the tuples selected, the number of initialize() calls started before
\* it, and the outcome of its outbound request, if it made one
NoAsk == [path |-> "none", q |-> <<>>, ret |-> "", raised |-> FALSE, best |-> <<>>,
          epoch |-> 0, resp |-> NoResp, built |-> 0]

\* create_chunks is not running
NoBuild == [n |-> 0, chunks |-> <<>>]

\* the second caller is not in ask()
NoOther == [pc |-> "idle", q |-> <<>>, prompt |-> <<>>, path |-> "none", ret |-> "",
            raised |-> FALSE, best |-> <<>>]

\* the last two entries of the call log
Log(log, e) == IF Len(log) < 2 THEN Append(log, e) ELSE <<log[2], e>>

Init ==
    /\ \E d \in Deployments : siteId = d.site /\ url = d.url /\ apiKey = d.key
    /\ pages = <<>>
    /\ chunks = <<>>
    /\ ready = FALSE
    /\ cache = <<>>
    /\ initPc = "idle"
    /\ futures = <<>>
    /\ localPages = <<>>
    /\ okFetched = {}
    /\ nInit = 0
    /\ askPc = "idle"
    /\ askQ = <<>>
    /\ askPrompt = <<>>
    /\ lastAsk = NoAsk
    /\ aiLog = <<>>
    /\ nAsk = 0
    /\ outbound = 0
    /\ oldPages = <<>>
    /\ oldChunks = <<>>
    /\ build = NoBuild
    /\ other = NoOther

\* initialize() resetting readiness while it runs
ReadyDuringReset(r) == FALSE

\* lines 210-216: initialize() does not assign self.ready before line 218
ReadyDuring(r) == r

\* initialize() up to the submission of the five fetch tasks (lines 212-214, 105-123)
InitStart ==
    /\ initPc = "idle"
    /\ nInit + nAsk < MaxOps
    /\ nInit' = nInit + 1
    /\ initPc' = "scraping"
    /\ localPages' = <<>>
    /\ okFetched' = {}
    /\ futures' = [k \in 1..Len(Urls(url)) |->
                      [url |-> Urls(url)[k], state |-> "running"]]
    /\ ready' = ReadyDuring(ready)
    /\ oldPages' = pages
    /\ oldChunks' = chunks
    /\ UNCHANGED <<apiKey, siteId, url, pages, chunks, cache,
                   askPc, askQ, askPrompt, lastAsk, aiLog, nAsk, outbound, build, other>>

\* initialize() called by the sequential caller, between two ask() calls
InitBegin == askPc = "idle" /\ InitStart

\* the URLs the sessions of the model fetch
FetchUrls == UNION {{Urls(d.url)[k] : k \in 1..5} : d \in Deployments}

\* scrape_page, tabulated over the sites and URLs of the model
Scraped == [s \in {d.site : d \in Deployments}, u \in FetchUrls |-> scrape_page(s, u)]

\* lines 127-130: what the loop body does with one result
Collected(ps, result) == IF result # None THEN Append(ps, result[1]) ELSE ps

\* a pool worker finishes scrape_page for task k and as_completed hands the
\* future to the loop, which no other thread observes in between (lines 121-130)
Complete(k) ==
    /\ initPc = "scraping"
    /\ futures[k].state = "running"
    /\ LET result == Scraped[siteId, futures[k].url]
       IN /\ futures' = [futures EXCEPT ![k].state = "done"]
          /\ localPages' = Collected(localPages, result)
          /\ okFetched' = IF result # None THEN okFetched \cup {k} ELSE okFetched
    /\ UNCHANGED <<apiKey, siteId, url, pages, chunks, ready, cache, initPc, nInit,
                   askPc, askQ, askPrompt, lastAsk, aiLog, nAsk, outbound,
                   oldPages, oldChunks, build, other>>

\* the collector leaving as soon as one task has finished
FirstDone(fs) == \E k \in 1..Len(fs) : fs[k].state = "done"

\* lines 119-132: as_completed has yielded every future and the `with` block
\* has shut the pool down
AllDone(fs) == \A k \in 1..Len(fs) : fs[k].state = "done"

\* the loop is exhausted, the pool shut down; self.pages is assigned (lines 132, 214)
ScrapeReturn ==
    /\ initPc = "scraping"
    /\ AllDone(futures)
    /\ pages' = localPages
    /\ initPc' = "scraped"
    /\ UNCHANGED <<apiKey, siteId, url, chunks, ready, cache, futures, localPages,
                   okFetched, nInit,
                   askPc, askQ, askPrompt, lastAsk, aiLog, nAsk, outbound,
                   oldPages, oldChunks, build, other>>

\* the new chunks added to the corpus the session held
AssignedExtend(old, new) == old \o new

\* line 239: self.chunks = chunks, the list built from line 227 on
Assigned(old, new) == new

\* self.create_chunks() (line 216), as the sequential caller sees it
CreateChunks ==
    /\ initPc = "scraped"
    /\ chunks' = Assigned(chunks, create_chunks(pages))
    /\ initPc' = "chunked"
    /\ UNCHANGED <<apiKey, siteId, url, pages, ready, cache, futures, localPages,
                   okFetched, nInit,
                   askPc, askQ, askPrompt, lastAsk, aiLog, nAsk, outbound,
                   oldPages, oldChunks, build, other>>

\* line 218: the readiness initialize() leaves behind
ReadyAfter(ps) == TRUE

\* self.ready = True (line 218); initialize() returns
SetReady ==
    /\ initPc = "chunked"
    /\ ready' = ReadyAfter(pages)
    /\ initPc' = "idle"
    /\ UNCHANGED <<apiKey, siteId, url, pages, chunks, cache, futures, localPages,
                   okFetched, nInit,
                   askPc, askQ, askPrompt, lastAsk, aiLog, nAsk, outbound,
                   oldPages, oldChunks, build, other>>

\* AskEntry with the other fallback policy: without context, the first chunks
\* of the corpus stand in for it and generation is called all the same
AskEntryFallback(rdy, cs, key, c, q) ==
    IF ~rdy
    THEN [sends |-> FALSE, called |-> FALSE, path |-> "notready", ret |-> "Bot not ready",
          best |-> <<>>, prompt |-> <<>>]
    ELSE LET best == Best(cs, q)
             context == IF Context(best) = <<>>
                        THEN Join(<<NL, NL>>, Slice(cs, 0, 3)) ELSE Context(best)
             prompt == Prompt(Company, context, q)
             e == CallEntry(key, c, prompt)
         IN [sends |-> e.sends, called |-> TRUE, path |-> e.path, ret |-> e.ret,
             best |-> best, prompt |-> prompt]

\* AskEntry without lines 279-280: readiness is never looked at
AskEntryNoReadyCheck(rdy, cs, key, c, q) ==
    LET best == Best(cs, q)
        context == Context(best)
        prompt == Prompt(Company, context, q)
        e == CallEntry(key, c, prompt)
    IN IF context = <<>>
       THEN [sends |-> FALSE, called |-> FALSE, path |-> "notfound",
             ret |-> "I couldn't find that information on our website.",
             best |-> best, prompt |-> <<>>]
       ELSE [sends |-> e.sends, called |-> TRUE, path |-> e.path, ret |-> e.ret,
             best |-> best, prompt |-> prompt]

\* lines 279-285 and 146-152: the outcome of ask(q) up to the outbound request
AskEntry(rdy, cs, key, c, q) ==
    IF ~rdy
    THEN [sends |-> FALSE, called |-> FALSE, path |-> "notready", ret |-> "Bot not ready",
          best |-> <<>>, prompt |-> <<>>]
    ELSE LET best == Best(cs, q)
             context == Context(best)
             prompt == Prompt(Company, context, q)
             e == CallEntry(key, c, prompt)
         IN IF context = <<>>
            THEN [sends |-> FALSE, called |-> FALSE, path |-> "notfound",
                  ret |-> "I couldn't find that information on our website.",
                  best |-> best, prompt |-> <<>>]
            ELSE [sends |-> e.sends, called |-> TRUE, path |-> e.path, ret |-> e.ret,
                  best |-> best, prompt |-> prompt]

\* ask(q) from its call to its return or to requests.post (lines 277-314, 144-154)
AskStart(q) ==
    /\ askPc = "idle"
    /\ nInit + nAsk < MaxOps
    /\ nAsk' = nAsk + 1
    /\ LET e == AskEntry(ready, chunks, apiKey, cache, q)
       IN /\ askQ' = q
          /\ lastAsk' = [path |-> e.path, q |-> q, ret |-> e.ret, raised |-> FALSE,
                         best |-> e.best, epoch |-> nInit, resp |-> NoResp,
                         built |-> build.n]
          /\ IF e.sends
             THEN /\ askPc' = "waiting"
                  /\ askPrompt' = e.prompt
                  /\ outbound' = outbound + 1
                  /\ aiLog' = aiLog
             ELSE /\ askPc' = "idle"
                  /\ askPrompt' = <<>>
                  /\ outbound' = outbound
                  /\ aiLog' = IF e.called
                              THEN Log(aiLog, [prompt |-> e.prompt, path |-> e.path,
                                               ret |-> e.ret, raised |-> FALSE, reqs |-> 0])
                              ELSE aiLog
    /\ UNCHANGED <<apiKey, siteId, url, pages, chunks, ready, cache, initPc, futures,
                   localPages, okFetched, nInit, oldPages, oldChunks, build, other>>

\* ask(q) called by the sequential caller, when initialize() is not running
AskBegin(q) == initPc = "idle" /\ AskStart(q)

\* requests.post ends with outcome r; call and ask return (lines 154-184, 314-316)
AskResponse(r) ==
    /\ askPc = "waiting"
    /\ LET x == CallExit(cache, askPrompt, r)
       IN /\ cache' = x.cache
          /\ lastAsk' = [lastAsk EXCEPT !.path = x.path, !.ret = x.ret,
                                        !.raised = x.raised, !.resp = r]
          /\ aiLog' = Log(aiLog, [prompt |-> askPrompt, path |-> x.path, ret |-> x.ret,
                                  raised |-> x.raised, reqs |-> 1])
    /\ askPc' = "idle"
    /\ askPrompt' = <<>>
    /\ UNCHANGED <<apiKey, siteId, url, pages, chunks, ready, initPc, futures,
                   localPages, okFetched, nInit, askQ, nAsk, outbound,
                   oldPages, oldChunks, build, other>>

Next ==
    \/ InitBegin
    \/ \E k \in 1..5 : Complete(k)
    \/ ScrapeReturn
    \/ CreateChunks
    \/ SetReady
    \/ \E q \in Questions : AskBegin(q)
    \/ \E r \in GenResponses : AskResponse(r)

Spec == Init /\ [][Next]_vars

(***************************************************************************)
(* The fetches end and the collector goes on: requests.get carries          *)
(* timeout=8 (line 77), so every scrape_page returns, and the thread in     *)
(* scrape_website is blocked on nothing but the futures.                    *)
(***************************************************************************)
Fairness ==
    /\ WF_vars(\E k \in 1..5 : Complete(k))
    /\ WF_vars(ScrapeReturn)

SpecFair == Init /\ [][Next]_vars /\ Fairness

(***************************************************************************)
(* Concurrent callers: initialize() runs in one thread while two other      *)
(* threads call ask() on the same session.  create_chunks is followed page  *)
(* by page, its list being local until line 239.  ask reads self.chunks     *)
(* once (the iterator of line 252) and looks the cache up once (line 151).  *)
(***************************************************************************)
\* the sessions followed under concurrent callers
DeploymentsConc == {d \in Deployments : d.site = 1 /\ d.key /\ d.url = Scheme \o Host}

InitConc == Init /\ \E d \in DeploymentsConc : siteId = d.site /\ url = d.url /\ apiKey = d.key

\* create_chunks appending to self.chunks itself, emptied first
ChunkStepInPlace(shared, b, page) ==
    LET grown == b.chunks \o PageChunks(page.content)
    IN [shared |-> grown, build |-> [n |-> b.n + 1, chunks |-> grown]]

\* lines 229-237: one turn of the loop over self.pages, on the local list
ChunkStep(shared, b, page) ==
    [shared |-> shared,
     build |-> [n |-> b.n + 1, chunks |-> b.chunks \o PageChunks(page.content)]]

ChunkPage ==
    /\ initPc = "scraped"
    /\ build.n < Len(pages)
    /\ LET st == ChunkStep(chunks, build, pages[build.n + 1])
       IN chunks' = st.shared /\ build' = st.build
    /\ UNCHANGED <<apiKey, siteId, url, pages, ready, cache, initPc, futures, localPages,
                   okFetched, nInit, askPc, askQ, askPrompt, lastAsk, aiLog, nAsk,
                   outbound, oldPages, oldChunks, other>>

\* line 239: self.chunks = chunks; create_chunks returns
ChunkAssign ==
    /\ initPc = "scraped"
    /\ build.n = Len(pages)
    /\ chunks' = Assigned(chunks, build.chunks)
    /\ build' = NoBuild
    /\ initPc' = "chunked"
    /\ UNCHANGED <<apiKey, siteId, url, pages, ready, cache, futures, localPages,
                   okFetched, nInit, askPc, askQ, askPrompt, lastAsk, aiLog, nAsk,
                   outbound, oldPages, oldChunks, other>>

\* the second caller's ask(q) up to its return or to requests.post
OtherBegin(q) ==
    /\ other.pc = "idle"
    /\ nInit + nAsk < MaxOps
    /\ nAsk' = nAsk + 1
    /\ LET e == AskEntry(ready, chunks, apiKey, cache, q)
       IN /\ other' = [pc |-> IF e.sends THEN "waiting" ELSE "idle", q |-> q,
                       prompt |-> IF e.sends THEN e.prompt ELSE <<>>,
                       path |-> e.path, ret |-> e.ret, raised |-> FALSE, best |-> e.best]
          /\ outbound' = IF e.sends THEN outbound + 1 ELSE outbound
    /\ UNCHANGED <<apiKey, siteId, url, pages, chunks, ready, cache, initPc, futures,
                   localPages, okFetched, nInit, askPc, askQ, askPrompt, lastAsk, aiLog,
                   oldPages, oldChunks, build>>

\* the second caller's requests.post ends with outcome r
OtherResponse(r) ==
    /\ other.pc = "waiting"
    /\ LET x == CallExit(cache, other.prompt, r)
       IN /\ cache' = x.cache
          /\ other' = [other EXCEPT !.pc = "idle", !.prompt = <<>>, !.path = x.path,
                                    !.ret = x.ret, !.raised = x.raised]
    /\ UNCHANGED <<apiKey, siteId, url, pages, chunks, ready, initPc, futures,
                   localPages, okFetched, nInit, askPc, askQ, askPrompt, lastAsk, aiLog,
                   nAsk, outbound, oldPages, oldChunks, build>>

NextConc ==
    \/ InitStart
    \/ \E k \in 1..5 : Complete(k)
    \/ ScrapeReturn
    \/ ChunkPage
    \/ ChunkAssign
    \/ SetReady
    \/ \E q \in Questions : AskStart(q)
    \/ \E r \in GenResponses : AskResponse(r)
    \/ \E q \in Questions : OtherBegin(q)
    \/ \E r \in GenResponses : OtherResponse(r)

SpecConc == InitConc /\ [][NextConc]_vars

(***************************************************************************)
(* Properties                                                              *)
(***************************************************************************)
\* two SmartAI.call invocations made one after the other with the same prompt,
\* the first of which returned a value
TwoCalls ==
    /\ Len(aiLog) = 2
    /\ aiLog[1].prompt = aiLog[2].prompt
    /\ ~aiLog[1].raised

\* C1 as stated: two calls of SmartAI.call(P) made one after the other issue at
\* most one outbound request in total and the second returns the string the
\* first returned, whatever the service answered to the first (success or
\* non-success status).
C1_TwoCallsOneRequest ==
    TwoCalls =>
        /\ aiLog[1].reqs + aiLog[2].reqs <= 1
        /\ ~aiLog[2].raised
        /\ aiLog[2].ret = aiLog[1].ret

\* C1 amended: the same, for a first call that returned a value without the
\* service answering it with a non-success status (missing key, cache hit, or a
\* success response carrying an answer).  After a non-success status nothing is
\* cached and the second call issues a request of its own.
C1_TwoCallsOneRequestUnlessError ==
    (TwoCalls /\ aiLog[1].path # "err") =>
        /\ aiLog[1].reqs + aiLog[2].reqs <= 1
        /\ ~aiLog[2].raised
        /\ aiLog[2].ret = aiLog[1].ret

C1_Witness ==
    /\ TwoCalls
    /\ aiLog[1].path = "ok"
    /\ aiLog[1].reqs = 1
    /\ aiLog[2].path = "hit"
    /\ aiLog[2].ret = "Answer two"

\* initialize() has run to its end at least once and is not running
Initialized == initPc = "idle" /\ nInit > 0

\* C2: when initialize() completes with zero successful page fetches
\* (scrape_website returned an empty sequence), the session is left non-ready.
C2_NoPagesNotReady ==
    (Initialized /\ pages = <<>>) => ~ready

\* the indices of the URLs of the session whose fetch succeeds
Succeeding ==
    {k \in 1..Len(Urls(url)) :
        /\ ~Get(siteId, Urls(url)[k]).raises
        /\ Get(siteId, Urls(url)[k]).status = 200}

\* the last completed ask ran retrieval on the corpus the session holds now
AskedThisCorpus ==
    /\ lastAsk.path \notin {"none", "notready"}
    /\ lastAsk.epoch = nInit
    /\ askPc = "idle"

\* the number of keywords of q found in the lower-cased chunk
ScoreOf(chunk, q) == Score(chunk, SplitWords(Lower(q)))

\* the selection the claim describes: the chunks scoring above 0, by
\* non-increasing score, corpus order among equal scores, the first five
StableTop(cs, q) ==
    LET score == [i \in 1..Len(cs) |-> ScoreOf(cs[i], q)]
        hit == {i \in 1..Len(cs) : score[i] > 0}
        Before(j, i) == score[j] > score[i] \/ (score[j] = score[i] /\ j < i)
        rank == [i \in hit |-> 1 + Cardinality({j \in hit : Before(j, i)})]
        n == IF Cardinality(hit) < 5 THEN Cardinality(hit) ELSE 5
    IN [r \in 1..n |-> LET i == CHOOSE i \in hit : rank[i] = r
                       IN <<score[i], cs[i]>>]

\* C3: get_relevant_chunks selects at most 5 chunks, each of strictly positive
\* score, in non-increasing score order, chunks of equal score in corpus order.
C3_StableTopFive ==
    AskedThisCorpus =>
        /\ Len(lastAsk.best) <= 5
        /\ \A k \in 1..Len(lastAsk.best) : lastAsk.best[k][1] > 0
        /\ lastAsk.best = StableTop(chunks, lastAsk.q)

\* C4: on a non-success status call returns "AI Error" and adds no cache entry,
\* so that the next call with the same prompt misses and issues a new request.
C4_ErrorNotCached ==
    /\ [][(askPc = "waiting" /\ askPc' = "idle"
           /\ ~lastAsk'.resp.raises /\ lastAsk'.resp.status # 200)
          => /\ lastAsk'.ret = "AI Error"
             /\ ~lastAsk'.raised
             /\ cache' = cache
             /\ Md5(askPrompt) \notin DOMAIN cache']_vars
    /\ []((Len(aiLog) = 2 /\ aiLog[1].prompt = aiLog[2].prompt /\ aiLog[1].path = "err")
          => aiLog[2].reqs = 1)

C4_Witness ==
    /\ Len(aiLog) = 2
    /\ aiLog[1].prompt = aiLog[2].prompt
    /\ aiLog[1].path = "err"
    /\ aiLog[1].ret = "AI Error"
    /\ aiLog[2].reqs = 1
    /\ aiLog[2].path = "ok"

\* C5: without the credential every SmartAI.call returns "API key missing",
\* no request is ever issued and the cache stays as it was.
C5_KeyMissing ==
    ~apiKey =>
        /\ outbound = 0
        /\ askPc = "idle"
        /\ cache = <<>>
        /\ \A k \in 1..Len(aiLog) :
              /\ aiLog[k].ret = "API key missing"
              /\ ~aiLog[k].raised
              /\ aiLog[k].reqs = 0
        /\ (AskedThisCorpus /\ lastAsk.best # <<>>) => lastAsk.ret = "API key missing"

C5_Witness ==
    /\ ~apiKey
    /\ Len(aiLog) = 2
    /\ AskedThisCorpus
    /\ Len(lastAsk.best) = 5

\* C6: in the Ready state, when no chunk scores positively for the question,
\* ask returns the fixed sentence, issues no request and leaves the cache alone,
\* with or without the credential.
C6_NotFound ==
    [][(askPc = "idle" /\ nAsk' = nAsk + 1 /\ ready
        /\ \A i \in 1..Len(chunks) : ScoreOf(chunks[i], askQ') = 0)
       => /\ lastAsk'.ret = "I couldn't find that information on our website."
          /\ ~lastAsk'.raised
          /\ askPc' = "idle"
          /\ outbound' = outbound
          /\ cache' = cache]_vars

C6_Witness ==
    /\ ready
    /\ apiKey
    /\ chunks # <<>>
    /\ cache # <<>>
    /\ AskedThisCorpus
    /\ lastAsk.path = "notfound"

\* C7: a session that is not Ready answers every ask with "Bot not ready",
\* without retrieval or request and without touching corpus, cache or readiness.
C7_NotReady ==
    [][(askPc = "idle" /\ nAsk' = nAsk + 1 /\ ~ready)
       => /\ lastAsk'.ret = "Bot not ready"
          /\ lastAsk'.path = "notready"
          /\ lastAsk'.best = <<>>
          /\ askPc' = "idle"
          /\ UNCHANGED <<pages, chunks, cache, ready, outbound, aiLog>>]_vars

C7_Witness ==
    /\ ~ready
    /\ nAsk = 2
    /\ lastAsk.path = "notready"
    /\ lastAsk.ret = "Bot not ready"

\* the concatenation of a sequence of strings
RECURSIVE Concat(_)
Concat(ss) == IF ss = <<>> THEN <<>> ELSE Head(ss) \o Concat(Tail(ss))

\* the number of windows of a text of n characters
Windows(n) == (n + ChunkSize - 1) \div ChunkSize

\* the number of chunks of the first i pages
RECURSIVE ChunksUpTo(_)
ChunksUpTo(i) == IF i = 0 THEN 0 ELSE ChunksUpTo(i - 1) + Windows(Len(pages[i].content))

\* C8: the chunks have between 1 and 500 characters, and the corpus is, page
\* after page in page order, a run of chunks whose concatenation is the page's
\* text: no chunk holds text of two pages, nothing is lost or repeated.
C8_ChunksPartitionPages ==
    initPc # "scraped" =>
        /\ \A k \in 1..Len(chunks) : Len(chunks[k]) >= 1 /\ Len(chunks[k]) <= ChunkSize
        /\ Len(chunks) = ChunksUpTo(Len(pages))
        /\ \A i \in 1..Len(pages) :
              Concat(SubSeq(chunks, ChunksUpTo(i - 1) + 1, ChunksUpTo(i))) = pages[i].content

C8_Witness ==
    /\ initPc = "chunked"
    /\ Len(pages) = 2
    /\ pages[1].content = <<>>
    /\ Len(chunks) = 6
    /\ Len(chunks[6]) = 1

\* C9: scrape_website returns exactly one page per URL whose fetch succeeds and
\* none for the others, whatever the completion order; the empty sequence when
\* none succeeds.
C9_OnePagePerSuccess ==
    (nInit > 0 /\ ~(nInit = 1 /\ initPc = "scraping")) =>
        /\ Len(pages) = Cardinality(Succeeding)
        /\ {pages[i].url : i \in 1..Len(pages)} = {Urls(url)[k] : k \in Succeeding}

C9_Witness ==
    /\ initPc = "scraped"
    /\ Succeeding = {1, 5}
    /\ Len(pages) = 2
    /\ pages[1].url = Urls(url)[5]
    /\ pages[2].url = Urls(url)[1]

\* C10: whenever the session is Ready and at least one page fetch of its last
\* initialize() succeeded, the corpus is non-empty.
C10_ReadyCorpusNonEmpty ==
    (Initialized /\ ready /\ okFetched # {}) => chunks # <<>>

\* C11: every failure of a generation attempt inside ask (missing credential,
\* non-success status, transport failure or timeout, success response without
\* the answer field) comes back as a string value: no ask and no SmartAI.call
\* ends with an exception, and the session stays Ready with its corpus intact.
C11_FailuresAreValues ==
    /\ ~lastAsk.raised
    /\ \A k \in 1..Len(aiLog) : ~aiLog[k].raised

\* the words of the lower-cased question
Words(q) == SplitWords(Lower(q))

\* the score the claim describes: 10 when the lower-cased question is a
\* substring of the lower-cased chunk, plus 2 for each question word of more
\* than three characters that is one
RECURSIVE LongWordPoints(_, _)
LongWordPoints(low, words) ==
    IF words = <<>> THEN 0
    ELSE (IF Len(Head(words)) > 3 /\ Contains(low, Head(words)) THEN 2 ELSE 0)
         + LongWordPoints(low, Tail(words))

BonusScore(chunk, q) ==
    (IF Contains(Lower(chunk), Lower(q)) THEN 10 ELSE 0)
    + LongWordPoints(Lower(chunk), Words(q))

\* one point for each question word, of whatever length, that is a substring
\* of the lower-cased chunk
RECURSIVE WordPoints(_, _)
WordPoints(low, words) ==
    IF words = <<>> THEN 0
    ELSE (IF Contains(low, Head(words)) THEN 1 ELSE 0) + WordPoints(low, Tail(words))

RECURSIVE CountUpTo(_, _)
CountUpTo(ps, i) == IF i = 0 THEN 0 ELSE CountUpTo(ps, i - 1) + Windows(Len(ps[i].content))

\* the chunks of cs cut from the i-th page of ps
Group(cs, ps, i) == SubSeq(cs, CountUpTo(ps, i - 1) + 1, CountUpTo(ps, i))

\* C13: a second initialize() against the same site leaves a corpus with as
\* many chunks as the first, every page cut at the same boundaries into the same
\* chunks, whatever the completion order of the fetches in either run; the new
\* corpus holds the chunks of the new pages and nothing of the old one besides.
C13_RerunSameCorpus ==
    (Initialized /\ nInit >= 2) =>
        /\ Len(chunks) = Len(oldChunks)
        /\ Len(pages) = Len(oldPages)
        /\ Len(chunks) = CountUpTo(pages, Len(pages))
        /\ \A i \in 1..Len(pages) :
              \E j \in 1..Len(oldPages) :
                  /\ oldPages[j].url = pages[i].url
                  /\ Group(chunks, pages, i) = Group(oldChunks, oldPages, j)

\* the second run ended with the fetches completing in the other order
C13_Witness ==
    /\ Initialized
    /\ nInit = 2
    /\ Len(chunks) = 2
    /\ chunks[1] = oldChunks[2]
    /\ chunks[2] = oldChunks[1]
    /\ chunks # oldChunks

\* the tuples an ask selects from the complete old or the complete new corpus
FromWholeCorpus(best, q) ==
    \/ best = Best(create_chunks(oldPages), q)
    \/ best = Best(create_chunks(pages), q)

\* C14: with ask() running concurrently with a re-invoked initialize(), the
\* corpus self.chunks refers to is at every moment the complete corpus of the
\* pages held before the call or the complete corpus of the new pages, and every
\* ask of a Ready session selects its chunks from one of the two, never from a
\* partly built or mixed corpus.
C14_AtomicSwap ==
    /\ [](chunks = create_chunks(oldPages) \/ chunks = create_chunks(pages))
    /\ [][(nAsk' = nAsk + 1 /\ ready)
          => /\ lastAsk' # lastAsk => FromWholeCorpus(lastAsk'.best, lastAsk'.q)
             /\ other' # other => FromWholeCorpus(other'.best, other'.q)]_vars

\* an ask made when create_chunks had cut one of the two new pages selected
\* the two chunks of the old corpus, the new pages being in the other order
C14_Witness ==
    /\ nInit = 2
    /\ initPc = "scraped"
    /\ build.n = 1
    /\ Len(build.chunks) = 1
    /\ pages # oldPages
    /\ lastAsk.built = 1
    /\ Len(lastAsk.best) = 2
    /\ chunks = oldChunks

\* both callers have returned from an ask with the same question and the same
\* selection, hence the same prompt, each after a miss and a request of its own
BothMissed ==
    /\ askPc = "idle"
    /\ other.pc = "idle"
    /\ lastAsk.path = "ok"
    /\ other.path = "ok"
    /\ lastAsk.q = other.q
    /\ lastAsk.best = other.best

\* C15: when two concurrent SmartAI.call invocations with the same prompt both
\* miss the cache and both call the service, their two cache writes agree: the
\* two answers written under the digest are equal, so that the stored value
\* does not depend on which write lands last.
C15_WritesAgree ==
    BothMissed =>
        /\ lastAsk.ret = other.ret
        /\ cache[Md5(Prompt(Company, Context(lastAsk.best), lastAsk.q))] = lastAsk.ret

\* a fetch task of the last scrape_website call has not finished
TaskRunning == \E k \in 1..Len(futures) : futures[k].state = "running"

\* C16: scrape_website returns only after all five fetch tasks have finished:
\* in no reachable state has the collector returned while a task is still
\* running; and, each fetch ending eventually, the collector eventually returns.
C16_CollectorWaits ==
    /\ []((nInit > 0 /\ initPc # "scraping") => (Len(futures) = 5 /\ ~TaskRunning))
    /\ ((initPc = "scraping") ~> (initPc = "scraped"))

\* the collector has returned the two pages of a site, three fetches having failed
C16_Witness ==
    /\ initPc = "scraped"
    /\ Len(futures) = 5
    /\ ~TaskRunning
    /\ Len(pages) = 2
    /\ Cardinality(okFetched) = 2

\* the prompt ask builds from the tuples it selected
PromptOf(best, q) == Prompt(Company, Context(best), q)

\* C17: the cache only grows: every entry, once stored, is still there with
\* its original answer after any sequence of calls made one after the other;
\* and with the credential present a later call with that prompt returns the
\* stored answer without an outbound request.
C17_CacheOnlyGrows ==
    /\ [][\A d \in DOMAIN cache : d \in DOMAIN cache' /\ cache'[d] = cache[d]]_vars
    /\ [][(askPc = "idle" /\ nAsk' = nAsk + 1 /\ apiKey /\ ready
           /\ lastAsk'.best # <<>>
           /\ Md5(PromptOf(lastAsk'.best, askQ')) \in DOMAIN cache)
          => /\ lastAsk'.ret = cache[Md5(PromptOf(lastAsk'.best, askQ'))]
             /\ ~lastAsk'.raised
             /\ askPc' = "idle"
             /\ outbound' = outbound
             /\ cache' = cache]_vars

\* the last ask was answered from the cache, after one request in all
C17_Witness ==
    /\ apiKey
    /\ askPc = "idle"
    /\ lastAsk.path = "hit"
    /\ Md5(PromptOf(lastAsk.best, lastAsk.q)) \in DOMAIN cache
    /\ lastAsk.ret = cache[Md5(PromptOf(lastAsk.best, lastAsk.q))]
    /\ outbound = 1

\* the URL begins with a scheme
HasScheme(u) ==
    \/ StartsWith(u, <<"h", "t", "t", "p", ":", "/", "/">>)
    \/ StartsWith(u, Scheme)

\* C18: the five candidate URLs carry a scheme: a base URL without one,
\* a bare host name beginning with "http" included, is prefixed with
\* "https://", and a base URL with a scheme is left as it is.
C18_UrlsCarryScheme ==
    nInit > 0 =>
        /\ Len(futures) = 5
        /\ \A k \in 1..Len(futures) :
              /\ HasScheme(futures[k].url)
              /\ futures[k].url =
                    (IF HasScheme(url) THEN url ELSE Scheme \o url) \o Suffixes[k]

\* C19: ask changes neither readiness nor the pages nor the corpus, whichever
\* path it takes (not ready, no context, missing credential, cache hit, error
\* or answer), and readiness never reverts: once Ready, the session is Ready
\* after any sequence of ask and initialize calls.
C19_AskFrameReadyStable ==
    /\ [][(nAsk' # nAsk \/ askPc' # askPc \/ lastAsk' # lastAsk)
          => UNCHANGED <<ready, pages, chunks>>]_vars
    /\ [][ready => ready']_vars

\* a Ready session in its second initialize(), after an ask that was answered
C19_Witness ==
    /\ ready
    /\ nInit = 2
    /\ initPc = "scraping"
    /\ lastAsk.path = "ok"
    /\ chunks # <<>>
    /\ pages # <<>>

====
